---- MODULE Spec2Model ----
\* The join-room publish pipeline of livekit-cli (cmd/livekit-cli/join.go):
\* joinRoom, handlePublish, parseSocketFromName, publishSocket, publishFile and
\* publishReader, with the room session, the sockets and the files as the
\* environment.  Go strings are sequences of one-character strings, so that
\* searching, slicing and concatenating them is computed, not assumed.
EXTENDS Integers, Sequences, FiniteSets, TLC

\* ---------------------------------------------------------------- bounds
\* The number of --publish values of one run.
MaxPublish == 2
\* The number of non-empty reads one socket delivers before it ends.
MaxChunks == 2

\* ---------------------------------------------------------------- strings
\* strings.Index: the 0-based offset of the first occurrence of sub in s, or -1.
Index(s, sub) ==
    LET hits == { i \in 0..(Len(s) - Len(sub)) : SubSeq(s, i + 1, i + Len(sub)) = sub }
    IN  IF hits = {} THEN -1 ELSE CHOOSE i \in hits : \A j \in hits : i <= j

\* strings.Contains
Contains(s, sub) == Index(s, sub) # -1

\* filepath.Ext: the suffix that starts at the last dot of the last path
\* element, empty when that element has no dot.
Ext(path) ==
    LET dots == { i \in 1..Len(path) :
                    /\ path[i] = "."
                    /\ \A j \in i..Len(path) : path[j] # "/" }
    IN  IF dots = {} THEN <<>>
        ELSE SubSeq(path, CHOOSE i \in dots : \A j \in dots : j <= i, Len(path))

mimeDelimiter == <<":", "/", "/">>
MimeTypeDataByte == "data/byte"
MimeTypeH264 == "video/H264"
MimeTypeVP8 == "video/VP8"
MimeTypeOpus == "audio/opus"

s_data == <<"d", "a", "t", "a">>
s_h264 == <<"h", "2", "6", "4">>
s_vp8 == <<"v", "p", "8">>
s_opus == <<"o", "p", "u", "s">>
s_colon == <<":">>
ext_h264 == <<".", "h", "2", "6", "4">>
ext_ivf == <<".", "i", "v", "f">>
EXIT == <<"E", "X", "I", "T">>

\* ---------------------------------------------------------------- errors
NoError == "nil"
ErrNoDelimiter == "did not find delimiter"
ErrUnsupportedMime == "unsupported mime type"
ErrEmptyAddress == "address cannot be empty"
ErrUnsupportedFileType == "unsupported file type"
ErrFinished == "finished writing stream"
ErrDial == "dial failed"
ErrOpen == "open failed"
ErrRead == "read failed"
ErrPublishData == "publish data failed"
ErrPublishTrack == "publish track failed"
ErrPublishDemo == "publish demo failed"
ErrConnect == "connect failed"
ErrUnpublishTrack == "unpublish track failed"

\* ---------------------------------------------------------------- parsing
\* isSocketFormat looking for a ':' instead of the whole delimiter.
isSocketFormat_colon(name) == Contains(name, s_colon)

isSocketFormat(name) == Contains(name, mimeDelimiter)

ParseResult(m, s, a, e) == [mimeType |-> m, socketType |-> s, address |-> a, err |-> e]

\* parseSocketFromName accepting every key that contains a supported one.
parseSocketFromName_substringKey(name) ==
    LET offset == Index(name, mimeDelimiter)
        mimeType == SubSeq(name, 1, offset)
        address == SubSeq(name, offset + Len(mimeDelimiter) + 1, Len(name))
    IN  IF offset = -1 THEN ParseResult(<<>>, "", <<>>, ErrNoDelimiter)
        ELSE IF ~Contains(mimeType, s_data) /\ ~Contains(mimeType, s_h264)
                /\ ~Contains(mimeType, s_vp8) /\ ~Contains(mimeType, s_opus)
            THEN ParseResult(<<>>, "", <<>>, ErrUnsupportedMime)
        ELSE IF Len(address) = 0 THEN ParseResult(<<>>, "", <<>>, ErrEmptyAddress)
        ELSE IF ~Contains(address, s_colon) THEN ParseResult(mimeType, "unix", address, NoError)
        ELSE ParseResult(mimeType, "tcp", address, NoError)

\* parseSocketFromName without the check for an empty address.
parseSocketFromName_noAddressCheck(name) ==
    LET offset == Index(name, mimeDelimiter)
        mimeType == SubSeq(name, 1, offset)
        address == SubSeq(name, offset + Len(mimeDelimiter) + 1, Len(name))
    IN  IF offset = -1 THEN ParseResult(<<>>, "", <<>>, ErrNoDelimiter)
        ELSE IF mimeType # s_data /\ mimeType # s_h264 /\ mimeType # s_vp8 /\ mimeType # s_opus
            THEN ParseResult(<<>>, "", <<>>, ErrUnsupportedMime)
        ELSE IF ~Contains(address, s_colon) THEN ParseResult(mimeType, "unix", address, NoError)
        ELSE ParseResult(mimeType, "tcp", address, NoError)

\* parseSocketFromName looking for the ':' in the whole name, not in the address.
parseSocketFromName_colonInName(name) ==
    LET offset == Index(name, mimeDelimiter)
        mimeType == SubSeq(name, 1, offset)
        address == SubSeq(name, offset + Len(mimeDelimiter) + 1, Len(name))
    IN  IF offset = -1 THEN ParseResult(<<>>, "", <<>>, ErrNoDelimiter)
        ELSE IF mimeType # s_data /\ mimeType # s_h264 /\ mimeType # s_vp8 /\ mimeType # s_opus
            THEN ParseResult(<<>>, "", <<>>, ErrUnsupportedMime)
        ELSE IF Len(address) = 0 THEN ParseResult(<<>>, "", <<>>, ErrEmptyAddress)
        ELSE IF ~Contains(name, s_colon) THEN ParseResult(mimeType, "unix", address, NoError)
        ELSE ParseResult(mimeType, "tcp", address, NoError)

parseSocketFromName(name) ==
    LET offset == Index(name, mimeDelimiter)
        mimeType == SubSeq(name, 1, offset)
        address == SubSeq(name, offset + Len(mimeDelimiter) + 1, Len(name))
    IN  IF offset = -1 THEN ParseResult(<<>>, "", <<>>, ErrNoDelimiter)
        ELSE IF mimeType # s_data /\ mimeType # s_h264 /\ mimeType # s_vp8 /\ mimeType # s_opus
            THEN ParseResult(<<>>, "", <<>>, ErrUnsupportedMime)
        ELSE IF Len(address) = 0 THEN ParseResult(<<>>, "", <<>>, ErrEmptyAddress)
        ELSE IF ~Contains(address, s_colon) THEN ParseResult(mimeType, "unix", address, NoError)
        ELSE ParseResult(mimeType, "tcp", address, NoError)

\* The switch of publishSocket that turns the mime key into a mime type.
SocketMime(mimeType) ==
    IF Contains(mimeType, s_data) THEN MimeTypeDataByte
    ELSE IF Contains(mimeType, s_h264) THEN MimeTypeH264
    ELSE IF Contains(mimeType, s_vp8) THEN MimeTypeVP8
    ELSE IF Contains(mimeType, s_opus) THEN MimeTypeOpus
    ELSE ErrUnsupportedFileType

\* strings.EqualFold on the mime types this program handles: equality after
\* lower-casing.
Fold(mime) ==
    IF mime = MimeTypeH264 THEN "video/h264"
    ELSE IF mime = MimeTypeVP8 THEN "video/vp8"
    ELSE mime

EqualFold(a, b) == Fold(a) = Fold(b)

\* ---------------------------------------------------------------- inputs
Key_ogg == <<"o", "g", "g">>
Key_xh264 == <<"x", "h", "2", "6", "4">>
Addr_tcp == <<"1", "2", "7", ".", "0", ".", "0", ".", "1", ":", "1", "2", "3", "4">>
Addr_unix == <<"/", "t", "m", "p", "/", "x", ".", "s", "o", "c", "k">>
File_h264 == <<"v", ".", "h", "2", "6", "4">>
File_ivf == <<"d", ".", "x", "/", "v", ".", "i", "v", "f">>
File_ogg == <<"a", ".", "o", "g", "g">>
File_noext == <<"v", ".", "i", "v", "f", "/", "r", "a", "w">>
File_colon == <<"h", "2", "6", "4", ":", "/", "x">>

MimeKeys == {s_data, s_h264, s_vp8, s_opus}
Keys == MimeKeys \cup {Key_ogg, Key_xh264, <<>>}
Addresses == {<<>>, Addr_tcp, Addr_unix}
SocketNames == { k \o mimeDelimiter \o a : k \in Keys, a \in Addresses }
    \cup { s_h264 \o mimeDelimiter \o s_vp8 \o mimeDelimiter \o Addr_unix }
FileNames == {File_h264, File_ivf, File_ogg, File_noext, File_colon}
\* The values --publish may take.
PublishNames == SocketNames \cup FileNames

\* The values --fps may take, in hundredths: 0, 0.5, 23.98, 25.
FpsValues == {0, 50, 2398, 2500}

\* What one read of a data socket may deliver.
s_hello == <<"h", "e", "l", "l", "o">>
s_EXITnl == <<"E", "X", "I", "T", "\n">>
Chunks == {s_hello, EXIT, s_EXITnl}

\* ---------------------------------------------------------------- pacing
\* time.Second, in nanoseconds.
Second == 1000000000
Millisecond == 1000000

\* Go's integer division truncates toward zero.
GoDiv(a, b) ==
    IF (a >= 0) = (b >= 0) THEN (IF a >= 0 THEN a \div b ELSE (-a) \div (-b))
    ELSE (IF a >= 0 THEN -(a \div (-b)) ELSE -((-a) \div b))

\* time.Duration(fps): a float64 converted to int64 loses its fraction.
Duration(f) == IF f >= 0 THEN f \div 100 ELSE -((-f) \div 100)

NoDuration == [set |-> FALSE, d |-> 0]

\* The frame-duration option of publishFile and publishReader: whether the
\* option is appended, and with what duration.  Dividing by a zero Duration
\* panics (FramePanics).
FramePanics(video, f) == video /\ f # 0 /\ Duration(f) = 0

\* FrameOption without the test for a video source.
FrameOption_anyMime(video, f) ==
    IF f # 0 /\ Duration(f) # 0
    THEN [set |-> TRUE, d |-> GoDiv(Second, Duration(f))]
    ELSE NoDuration

\* FrameOption dividing time.Millisecond instead of time.Second.
FrameOption_millisecond(video, f) ==
    IF video /\ f # 0 /\ Duration(f) # 0
    THEN [set |-> TRUE, d |-> GoDiv(Millisecond, Duration(f))]
    ELSE NoDuration

FrameOption(video, f) ==
    IF video /\ f # 0 /\ Duration(f) # 0
    THEN [set |-> TRUE, d |-> GoDiv(Second, Duration(f))]
    ELSE NoDuration

IsVideoExt(filename) == Ext(filename) = ext_h264 \/ Ext(filename) = ext_ivf

IsVideoMime(mime) == EqualFold(mime, MimeTypeVP8) \/ EqualFold(mime, MimeTypeH264)

\* ---------------------------------------------------------------- state
VARIABLES
    load,        \* loadProjectDetails: its inputs, its position and what it returned
    pc,          \* where joinRoom is
    fps,         \* --fps, in hundredths
    nPublish,    \* the number of --publish values
    idx,         \* the number of --publish values handlePublish was called with
    name,        \* the --publish value of the latest handlePublish call
    sock,        \* publishSocket's parameters: mimeType, socketType, address
    mime,        \* publishReader's mime
    dials,       \* the handlePublish calls (by number) that called net.Dial
    opens,       \* those that called lksdk.NewLocalFileTrack, which opens the file
    tracks,      \* the tracks handed to PublishTrack
    data,        \* the buffer of the data loop's current iteration
    inEOF,       \* the data socket has reported end-of-stream
    chunksRead,  \* what the reads of the data socket delivered, in order
    sent,        \* the payloads passed to PublishData, in order
    sendErr,     \* what the latest PublishData call returned, NoError for nil
    err,         \* what joinRoom returned, NoError for nil
    connected,   \* the room session is connected
    disconnects  \* the room.Disconnect calls made

vars == <<load, pc, fps, nPublish, idx, name, sock, mime, dials, opens, tracks, data, inEOF,
          chunksRead, sent, sendErr, err, connected, disconnects>>

NoSock == [mimeType |-> <<>>, socketType |-> "", address |-> <<>>]

Running == pc \notin {"done", "panic"}

\* An empty config.ProjectConfig, and the one of the default project.
EmptyProjectConfig == [URL |-> "", Token |-> "", APIKey |-> "", APISecret |-> ""]

DefaultProjectConfig ==
    [URL |-> "ws://default", Token |-> "", APIKey |-> "defaultkey", APISecret |-> "defaultsecret"]

\* loadProjectDetails as joinRoom calls it, with no flag set, after it has
\* returned the default project.
LoadedDefault ==
    [at |-> "returned", opts |-> <<>>, requireURL |-> TRUE, project |-> "", url |-> "",
     token |-> "", apiKey |-> "", apiSecret |-> "", pc |-> DefaultProjectConfig,
     ret |-> "default project", err |-> NoError]

Init ==
    /\ load = LoadedDefault
    /\ pc = "connect"
    /\ fps \in FpsValues
    /\ nPublish \in 0..MaxPublish
    /\ idx = 0
    /\ name = <<>>
    /\ sock = NoSock
    /\ mime = ""
    /\ dials = {}
    /\ opens = {}
    /\ tracks = <<>>
    /\ data = <<>>
    /\ inEOF = FALSE
    /\ chunksRead = <<>>
    /\ sent = <<>>
    /\ sendErr = NoError
    /\ err = NoError
    /\ connected = FALSE
    /\ disconnects = 0

\* Return that leaves the session as it is: no room.Disconnect on the way out.
Return_noDisconnect(e) ==
    /\ pc' = "done"
    /\ err' = e
    /\ UNCHANGED <<connected, disconnects>>

\* Return that gives up the failed specifier only: the error is noted and the
\* loop over the --publish values goes on with the session connected.
Return_skipsSpecifier(e) ==
    /\ pc' = "loop"
    /\ err' = e
    /\ UNCHANGED <<connected, disconnects>>

\* joinRoom returns e after it has connected: the deferred room.Disconnect runs.
Return(e) ==
    /\ pc' = "done"
    /\ err' = e
    /\ connected' = FALSE
    /\ disconnects' = disconnects + 1

\* A run-time panic below joinRoom: the deferred room.Disconnect runs while the
\* stack unwinds, then the process dies without joinRoom returning a value.
Panic ==
    /\ pc' = "panic"
    /\ connected' = FALSE
    /\ disconnects' = disconnects + 1
    /\ UNCHANGED err

\* lksdk.ConnectToRoom / ConnectToRoomWithToken, then the publish-demo flag.
Connect ==
    /\ pc = "connect"
    /\ \/ /\ pc' = "done"
          /\ err' = ErrConnect
          /\ UNCHANGED <<connected, disconnects>>
       \/ /\ connected' = TRUE
          /\ \E publishDemoFlag \in BOOLEAN : pc' = IF publishDemoFlag THEN "demo" ELSE "loop"
          /\ UNCHANGED <<err, disconnects>>
    /\ UNCHANGED <<fps, load, sendErr, nPublish, idx, name, sock, mime, dials, opens, tracks, data, inEOF,
                   chunksRead, sent>>

\* publishDemo: the simulcast demo track is published or an error comes back.
PublishDemo ==
    /\ pc = "demo"
    /\ \/ Return(ErrPublishDemo)
       \/ /\ pc' = "loop"
          /\ UNCHANGED <<err, connected, disconnects>>
    /\ UNCHANGED <<fps, load, sendErr, nPublish, idx, name, sock, mime, dials, opens, tracks, data, inEOF,
                   chunksRead, sent>>

\* A new track of publishFile or publishReader, before PublishTrack is called.
NewTrack(i, m, fd) ==
    [idx |-> i, mime |-> m, frameDuration |-> fd, state |-> "created", pub |-> FALSE,
     writer |-> "idle", unpublished |-> 0, unpublishErr |-> NoError]

\* handlePublish(room, name, fps), up to its first call that blocks: the dial
\* of publishSocket or the file open of publishFile.
handlePublish(n) ==
    /\ idx' = idx + 1
    /\ name' = n
    /\ IF isSocketFormat(n)
       THEN LET p == parseSocketFromName(n) IN
            IF p.err # NoError
            THEN /\ Return(p.err)
                 /\ UNCHANGED <<sock, mime>>
            ELSE IF SocketMime(p.mimeType) = ErrUnsupportedFileType
            THEN /\ Return(ErrUnsupportedFileType)
                 /\ UNCHANGED <<sock, mime>>
            ELSE /\ sock' = [mimeType |-> p.mimeType, socketType |-> p.socketType,
                             address |-> p.address]
                 /\ mime' = SocketMime(p.mimeType)
                 /\ pc' = "dial"
                 /\ UNCHANGED <<err, connected, disconnects>>
       ELSE /\ IF FramePanics(IsVideoExt(n), fps)
               THEN Panic
               ELSE /\ pc' = "open"
                    /\ UNCHANGED <<err, connected, disconnects>>
            /\ UNCHANGED <<sock, mime>>
    /\ UNCHANGED <<fps, load, sendErr, nPublish, dials, opens, tracks, data, inEOF, chunksRead, sent>>

\* NextPublish that begins the next --publish value while PublishTrack of the
\* one before has not returned.
NextPublish_overlapping ==
    /\ pc \in {"loop", "publishing"}
    /\ idx < nPublish
    /\ \E n \in PublishNames : handlePublish(n)

\* One round of the loop over c.StringSlice("publish").
NextPublish ==
    /\ pc = "loop"
    /\ idx < nPublish
    /\ \E n \in PublishNames : handlePublish(n)

\* The loop is over: joinRoom blocks on <-done.
LoopDone ==
    /\ pc = "loop"
    /\ idx = nPublish
    /\ pc' = "wait"
    /\ UNCHANGED <<fps, load, sendErr, nPublish, idx, name, sock, mime, dials, opens, tracks, data, inEOF,
                   chunksRead, sent, err, connected, disconnects>>

\* SIGINT, SIGTERM or SIGQUIT arrives: joinRoom returns nil.
Signal ==
    /\ pc = "wait"
    /\ Return(NoError)
    /\ UNCHANGED <<fps, load, sendErr, nPublish, idx, name, sock, mime, dials, opens, tracks, data, inEOF,
                   chunksRead, sent>>

\* publishFile from lksdk.NewLocalFileTrack on: the file is opened, and when
\* that succeeds the track is handed to PublishTrack.
OpenFile ==
    /\ pc = "open"
    /\ \E ok \in BOOLEAN :
        /\ opens' = opens \cup {idx}
        /\ IF ok
           THEN /\ tracks' = Append(tracks,
                        [NewTrack(idx, "file", FrameOption(IsVideoExt(name), fps))
                            EXCEPT !.state = "publishing"])
                /\ pc' = "publishing"
                /\ UNCHANGED <<err, connected, disconnects>>
           ELSE /\ Return(ErrOpen)
                /\ UNCHANGED tracks
    /\ UNCHANGED <<fps, load, sendErr, nPublish, idx, name, sock, mime, dials, data, inEOF, chunksRead, sent>>

\* IsDataMime sending every mime to the track branch.
IsDataMime_never(m) == FALSE

\* The test of publishReader that chooses between the track and the data loop.
IsDataMime(m) == m = MimeTypeDataByte

\* publishSocket from net.Dial on, and publishReader up to its first blocking
\* call: PublishTrack for a media mime, the first read for the data mime.
Dial ==
    /\ pc = "dial"
    /\ \E ok \in BOOLEAN :
        /\ dials' = dials \cup {idx}
        /\ IF ~ok
           THEN /\ Return(ErrDial)
                /\ UNCHANGED <<tracks, data, inEOF, chunksRead>>
           ELSE IF FramePanics(IsVideoMime(mime), fps)
           THEN /\ Panic
                /\ UNCHANGED <<tracks, data, inEOF, chunksRead>>
           ELSE IF ~IsDataMime(mime)
           THEN /\ tracks' = Append(tracks,
                        [NewTrack(idx, mime, FrameOption(IsVideoMime(mime), fps))
                            EXCEPT !.state = "publishing"])
                /\ pc' = "publishing"
                /\ UNCHANGED <<data, inEOF, chunksRead, err, connected, disconnects>>
           ELSE /\ pc' = "read"
                /\ data' = <<>>
                /\ inEOF' = FALSE
                /\ chunksRead' = <<>>
                /\ UNCHANGED <<tracks, err, connected, disconnects>>
    /\ UNCHANGED <<fps, load, sendErr, nPublish, idx, name, sock, mime, opens, sent>>

\* PublishTrackReturn that calls PublishTrack again after a rejection.
PublishTrackReturn_retries ==
    /\ pc = "publishing"
    /\ \E ok \in BOOLEAN :
        LET t == Len(tracks) IN
        IF ok
        THEN /\ tracks' = [tracks EXCEPT ![t].state = "published", ![t].pub = TRUE]
             /\ pc' = "loop"
        ELSE /\ tracks' = [tracks EXCEPT ![t].state = "rejected"]
             /\ pc' = "publishing"
    /\ UNCHANGED <<err, connected, disconnects>>
    /\ UNCHANGED <<fps, load, sendErr, nPublish, idx, name, sock, mime, dials, opens, data, inEOF,
                   chunksRead, sent>>

\* room.LocalParticipant.PublishTrack returns: pub is assigned, and
\* publishFile / publishReader return its error to handlePublish and joinRoom.
PublishTrackReturn ==
    /\ pc = "publishing"
    /\ \E ok \in BOOLEAN :
        LET t == Len(tracks) IN
        IF ok
        THEN /\ tracks' = [tracks EXCEPT ![t].state = "published", ![t].pub = TRUE]
             /\ pc' = "loop"
             /\ UNCHANGED <<err, connected, disconnects>>
        ELSE /\ tracks' = [tracks EXCEPT ![t].state = "rejected"]
             /\ Return(ErrPublishTrack)
    /\ UNCHANGED <<fps, load, sendErr, nPublish, idx, name, sock, mime, dials, opens, data, inEOF,
                   chunksRead, sent>>

\* WriteComplete whose hook calls UnpublishTrack without looking at pub.
WriteComplete_noNilCheck(t) ==
    /\ Running
    /\ tracks[t].state \in {"publishing", "published"}
    /\ tracks[t].writer # "done"
    /\ tracks' = [tracks EXCEPT ![t].writer = "done", ![t].unpublished = @ + 1]
    /\ UNCHANGED <<pc, fps, load, sendErr, nPublish, idx, name, sock, mime, dials, opens, data, inEOF,
                   chunksRead, sent, err, connected, disconnects>>

\* WriteComplete whose hook passes a failure of UnpublishTrack on: joinRoom
\* returns it.
WriteComplete_failureReturns(t) ==
    /\ Running
    /\ tracks[t].state \in {"publishing", "published"}
    /\ tracks[t].writer # "done"
    /\ IF tracks[t].pub
       THEN \E e \in {NoError, ErrUnpublishTrack} :
            /\ tracks' = [tracks EXCEPT ![t].writer = "done", ![t].unpublished = @ + 1,
                                        ![t].unpublishErr = e]
            /\ IF e = NoError
               THEN UNCHANGED <<pc, err, connected, disconnects>>
               ELSE Return(e)
       ELSE /\ tracks' = [tracks EXCEPT ![t].writer = "done"]
            /\ UNCHANGED <<pc, err, connected, disconnects>>
    /\ UNCHANGED <<fps, load, sendErr, nPublish, idx, name, sock, mime, dials, opens, data, inEOF,
                   chunksRead, sent>>

\* The sample provider of track t runs out of input and calls the
\* ReaderTrackWithOnWriteComplete hook, which unpublishes when pub is non-nil
\* and drops what UnpublishTrack returns.
WriteComplete(t) ==
    /\ Running
    /\ tracks[t].state \in {"publishing", "published"}
    /\ tracks[t].writer # "done"
    /\ IF tracks[t].pub
       THEN \E e \in {NoError, ErrUnpublishTrack} :
            tracks' = [tracks EXCEPT ![t].writer = "done", ![t].unpublished = @ + 1,
                                     ![t].unpublishErr = e]
       ELSE tracks' = [tracks EXCEPT ![t].writer = "done"]
    /\ UNCHANGED <<pc, fps, load, sendErr, nPublish, idx, name, sock, mime, dials, opens, data, inEOF,
                   chunksRead, sent, err, connected, disconnects>>

\* bytes.Buffer.ReadFrom(in), one in.Read at a time: it appends what the
\* socket delivers until the socket reports io.EOF (ReadFrom returns nil) or
\* another error (ReadFrom returns that error).
ReadChunk ==
    /\ pc = "read"
    /\ ~inEOF
    /\ Len(chunksRead) < MaxChunks
    /\ \E c \in Chunks :
        /\ data' = data \o c
        /\ chunksRead' = Append(chunksRead, c)
    /\ UNCHANGED <<pc, fps, load, sendErr, nPublish, idx, name, sock, mime, dials, opens, tracks, inEOF,
                   sent, err, connected, disconnects>>

ReadError ==
    /\ pc = "read"
    /\ ~inEOF
    /\ Return(ErrRead)
    /\ UNCHANGED <<fps, load, sendErr, nPublish, idx, name, sock, mime, dials, opens, tracks, data, inEOF,
                   chunksRead, sent>>

\* AfterRead taking every buffer that contains the sentinel for the sentinel.
AfterRead_substring(buf) ==
    IF Len(buf) > 0
    THEN IF Contains(buf, EXIT)
         THEN Return(ErrFinished)
         ELSE /\ pc' = "send"
              /\ UNCHANGED <<err, connected, disconnects>>
    ELSE /\ pc' = "sleep"
         /\ UNCHANGED <<err, connected, disconnects>>

\* What the loop body does with the buffer ReadFrom filled: return on the
\* sentinel, go on to PublishData when there are bytes, else to the sleep.
AfterRead(buf) ==
    IF Len(buf) > 0
    THEN IF buf = EXIT
         THEN Return(ErrFinished)
         ELSE /\ pc' = "send"
              /\ UNCHANGED <<err, connected, disconnects>>
    ELSE /\ pc' = "sleep"
         /\ UNCHANGED <<err, connected, disconnects>>

ReadEOF ==
    /\ pc = "read"
    /\ inEOF' = TRUE
    /\ AfterRead(data)
    /\ UNCHANGED <<fps, load, sendErr, nPublish, idx, name, sock, mime, dials, opens, tracks, data,
                   chunksRead, sent>>

\* PublishData whose error is dropped: the loop goes on after a failed send.
PublishData_ignoresError ==
    /\ pc = "send"
    /\ sent' = Append(sent, data)
    /\ \E e \in {NoError, ErrPublishData} : sendErr' = e
    /\ pc' = "sleep"
    /\ UNCHANGED <<err, connected, disconnects>>
    /\ UNCHANGED <<fps, load, nPublish, idx, name, sock, mime, dials, opens, tracks, data, inEOF,
                   chunksRead>>

\* PublishData whose failure ends the data loop without an error: joinRoom
\* goes on to the next --publish value.
PublishData_returnsNil ==
    /\ pc = "send"
    /\ sent' = Append(sent, data)
    /\ \/ /\ sendErr' = NoError
          /\ pc' = "sleep"
       \/ /\ sendErr' = ErrPublishData
          /\ pc' = "loop"
    /\ UNCHANGED <<err, connected, disconnects>>
    /\ UNCHANGED <<fps, load, nPublish, idx, name, sock, mime, dials, opens, tracks, data, inEOF,
                   chunksRead>>

\* room.LocalParticipant.PublishData(data.Bytes(), RELIABLE, nil)
PublishData ==
    /\ pc = "send"
    /\ sent' = Append(sent, data)
    /\ \/ /\ sendErr' = NoError
          /\ pc' = "sleep"
          /\ UNCHANGED <<err, connected, disconnects>>
       \/ /\ sendErr' = ErrPublishData
          /\ Return(ErrPublishData)
    /\ UNCHANGED <<fps, load, nPublish, idx, name, sock, mime, dials, opens, tracks, data, inEOF,
                   chunksRead>>

\* time.Sleep(10ms), then the next iteration starts with a new buffer.
Sleep ==
    /\ pc = "sleep"
    /\ pc' = "read"
    /\ data' = <<>>
    /\ UNCHANGED <<fps, load, sendErr, nPublish, idx, name, sock, mime, dials, opens, tracks, inEOF,
                   chunksRead, sent, err, connected, disconnects>>

Next ==
    \/ Connect
    \/ PublishDemo
    \/ NextPublish
    \/ LoopDone
    \/ Signal
    \/ OpenFile
    \/ Dial
    \/ PublishTrackReturn
    \/ \E t \in 1..Len(tracks) : WriteComplete(t)
    \/ ReadChunk
    \/ ReadError
    \/ ReadEOF
    \/ PublishData
    \/ Sleep

Spec == Init /\ [][Next]_vars

\* ---------------------------------------------------------------- claims
\* The vocabulary of the claims, stated on the characters of a specifier.
DelimiterAt(s, i) == i + 2 <= Len(s) /\ s[i] = ":" /\ s[i + 1] = "/" /\ s[i + 2] = "/"

RECURSIVE DelimiterFrom(_, _)
\* The least position from i on where "://" starts, 0 when there is none.
DelimiterFrom(s, i) ==
    IF i + 2 > Len(s) THEN 0
    ELSE IF DelimiterAt(s, i) THEN i
    ELSE DelimiterFrom(s, i + 1)

FirstDelimiter(s) == DelimiterFrom(s, 1)

HasDelimiter(s) == FirstDelimiter(s) # 0

BeforeDelimiter(s) == SubSeq(s, 1, FirstDelimiter(s) - 1)

AfterDelimiter(s) == SubSeq(s, FirstDelimiter(s) + 3, Len(s))

HasColon(s) == \E i \in 1..Len(s) : s[i] = ":"

EndsWith(s, suffix) ==
    /\ Len(suffix) <= Len(s)
    /\ \A i \in 1..Len(suffix) : s[Len(s) - Len(suffix) + i] = suffix[i]

ParseErrors == {ErrNoDelimiter, ErrUnsupportedMime, ErrEmptyAddress}

\* The latest handlePublish call has made no call on a socket, a file or the room.
NoEffect ==
    /\ idx \notin dials
    /\ idx \notin opens
    /\ \A t \in 1..Len(tracks) : tracks[t].idx # idx
    /\ sent = <<>>

\* The specifier names a frame-oriented source: a socket with the key h264 or
\* vp8, or a file whose extension is .h264 or .ivf.
FrameOriented(s) ==
    IF HasDelimiter(s) THEN BeforeDelimiter(s) \in {s_h264, s_vp8}
    ELSE EndsWith(s, ext_h264) \/ EndsWith(s, ext_ivf)

\* C1: a specifier with "://" whose text before the first "://" is not data,
\* h264, vp8 or opus fails with the unsupported-mime-type error whatever
\* follows the delimiter, and its handlePublish dials no socket, opens no
\* file, publishes no track and sends no data.
C1_UnsupportedMimeKey ==
    (idx >= 1 /\ HasDelimiter(name) /\ BeforeDelimiter(name) \notin MimeKeys)
        => /\ pc = "done"
           /\ err = ErrUnsupportedMime
           /\ NoEffect

C1_Witness ==
    /\ name = Key_xh264 \o mimeDelimiter \o Addr_tcp
    /\ err = ErrUnsupportedMime
    /\ idx = 2
    /\ Len(tracks) = 1

\* C2: a specifier "<k>://" with k one of data, h264, vp8, opus and nothing
\* after the first "://" fails with the empty-address error, and no socket is
\* dialled for it.
C2_EmptyAddress ==
    (idx >= 1 /\ \E k \in MimeKeys : name = k \o <<":", "/", "/">>)
        => /\ pc = "done"
           /\ err = ErrEmptyAddress
           /\ idx \notin dials

C2_Witness ==
    /\ name = s_data \o mimeDelimiter
    /\ err = ErrEmptyAddress
    /\ idx \notin dials

\* C3: once a socket specifier has parsed, publishSocket holds the specifier
\* split at its first "://": the key before it, the address exactly the text
\* after it, and the transport tcp when that address contains ':' and unix
\* otherwise.
C3_SplitAndTransport ==
    (idx >= 1 /\ (pc = "dial" \/ idx \in dials))
        => /\ HasDelimiter(name)
           /\ sock.mimeType = BeforeDelimiter(name)
           /\ sock.address = AfterDelimiter(name)
           /\ sock.address # <<>>
           /\ sock.socketType = IF HasColon(sock.address) THEN "tcp" ELSE "unix"
           /\ (sock.address = Addr_tcp => sock.socketType = "tcp")
           /\ (sock.address = Addr_unix => sock.socketType = "unix")

C3_Witness ==
    /\ pc = "dial"
    /\ sock.mimeType = s_opus
    /\ sock.address = Addr_unix
    /\ sock.socketType = "unix"

\* C4: a specifier without "://" is handled as a file (it goes to publishFile,
\* it is never refused by the parser and never dialled); a specifier with
\* "://" is handled as a socket specifier and never opened as a file.
C4_OneTarget ==
    idx >= 1 =>
        IF HasDelimiter(name)
        THEN /\ idx \notin opens
             /\ pc # "open"
             /\ (pc = "dial" \/ idx \in dials \/ err \in ParseErrors)
        ELSE /\ idx \notin dials
             /\ pc # "dial"
             /\ err \notin ParseErrors
             /\ (pc \in {"open", "panic"} \/ idx \in opens)

C4_Witness ==
    /\ name = File_colon
    /\ idx \in opens
    /\ pc = "loop"

\* C5: a track gets a frame duration only when the rate is nonzero and the
\* source is frame-oriented; with rate 0 no track gets one, and a track of an
\* opus socket or of a file with another extension gets none at any rate.
C5_FrameDurationOnlyForVideo ==
    \A t \in 1..Len(tracks) :
        tracks[t].idx = idx =>
            /\ (tracks[t].frameDuration.set => (fps # 0 /\ FrameOriented(name)))
            /\ (fps = 0 => tracks[t].frameDuration = NoDuration)
            /\ (~FrameOriented(name) => tracks[t].frameDuration = NoDuration)

C5_Witness ==
    /\ fps = 2500
    /\ Len(tracks) = 2
    /\ tracks[1].mime = MimeTypeOpus
    /\ ~tracks[1].frameDuration.set
    /\ tracks[2].idx = idx
    /\ name = File_ivf
    /\ tracks[2].frameDuration.set

\* C6: with a rate of 25 the track of a frame-oriented source gets a frame
\* duration of exactly 40 ms.
C6_Rate25Gives40ms ==
    \A t \in 1..Len(tracks) :
        (fps = 2500 /\ tracks[t].idx = idx /\ FrameOriented(name))
            => tracks[t].frameDuration = [set |-> TRUE, d |-> 40 * Millisecond]

C6_Witness ==
    /\ fps = 2500
    /\ name = s_vp8 \o mimeDelimiter \o Addr_tcp
    /\ Len(tracks) = 1
    /\ tracks[1].frameDuration.d = 40000000

\* The data loop of the latest handlePublish call has been entered.
InDataLoop == idx \in dials /\ mime = MimeTypeDataByte

IsPrefix(a, b) == Len(a) <= Len(b) /\ \A i \in 1..Len(a) : a[i] = b[i]

\* The chunks of a sequence of reads that precede its first "EXIT".
BeforeExit(reads) ==
    LET exits == { i \in 1..Len(reads) : reads[i] = EXIT }
    IN  IF exits = {} THEN reads
        ELSE SubSeq(reads, 1, (CHOOSE i \in exits : \A j \in exits : i <= j) - 1)

\* C7: the messages forwarded are the chunks read before the first chunk
\* "EXIT", each as its own message and in read order, and nothing is read
\* after that chunk.
C7_ForwardsChunksBeforeExit ==
    InDataLoop =>
        /\ IsPrefix(sent, BeforeExit(chunksRead))
        /\ \A i \in 1..Len(chunksRead) : chunksRead[i] = EXIT => i = Len(chunksRead)

C9_StopsOnStreamEnd ==
    InDataLoop =>
        /\ (inEOF => pc \notin {"read", "sleep"})
        /\ err # ErrRead

\* C10: when the loop has stopped on the sentinel, no error has reached
\* joinRoom and the room is still connected.
C10_SentinelIsNormalTermination ==
    (InDataLoop /\ inEOF /\ data = EXIT /\ pc \notin {"read", "send", "sleep"})
        => (err = NoError /\ connected)

\* C11: when PublishData fails the loop stops at once with that failure as
\* joinRoom's error: the failed payload is the last one passed to PublishData,
\* passed once, and nothing is read or sent afterwards.
C11_SendFailureStops ==
    sendErr # NoError =>
        /\ pc = "done"
        /\ err = sendErr
        /\ sent # <<>>
        /\ sent[Len(sent)] = data
        /\ \A i \in 1..(Len(sent) - 1) : sent[i] # data

C11_Witness ==
    /\ sendErr = ErrPublishData
    /\ pc = "done"
    /\ chunksRead = <<s_hello, s_EXITnl>>
    /\ sent = <<s_hello \o s_EXITnl>>

\* C12: for a specifier with the key data no track is made, published or
\* unpublished; its socket is dialled and only PublishData reaches the room.
C12_DataHasNoTrack ==
    (idx >= 1 /\ HasDelimiter(name) /\ BeforeDelimiter(name) = s_data)
        => /\ \A t \in 1..Len(tracks) : tracks[t].idx # idx
           /\ pc # "publishing"
           /\ (sent # <<>> => idx \in dials)

C12_Witness ==
    /\ idx = 2
    /\ name = s_data \o mimeDelimiter \o Addr_tcp
    /\ Len(tracks) = 1
    /\ tracks[1].idx = 1
    /\ sent = <<s_hello>>

\* C13: every successfully published track whose source has run out has had
\* exactly one UnpublishTrack call, in whichever order the source ran out and
\* PublishTrack returned.
C13_ExactlyOneUnpublish ==
    \A t \in 1..Len(tracks) :
        (tracks[t].state = "published" /\ tracks[t].writer = "done")
            => tracks[t].unpublished = 1

\* The errors of resolving one specifier: it does not parse, its socket cannot
\* be dialled or its file cannot be opened.
ResolveErrors == ParseErrors \cup {ErrUnsupportedFileType, ErrDial, ErrOpen}

RECURSIVE Concat(_)
\* The bytes of a sequence of reads, one after the other.
Concat(reads) == IF reads = <<>> THEN <<>> ELSE Head(reads) \o Concat(Tail(reads))

\* C15: with several specifiers on one session, every message passed to
\* PublishData is made of bytes read from one source, the socket of the
\* specifier whose data loop is running; no other specifier adds to it.
C15_OneSourcePerMessage ==
    sent # <<>> =>
        /\ InDataLoop
        /\ \A i \in 1..Len(sent) :
            \E a \in 1..Len(chunksRead) : \E b \in a..Len(chunksRead) :
                sent[i] = Concat(SubSeq(chunksRead, a, b))

C15_Witness ==
    /\ idx = 2
    /\ 1 \in dials
    /\ Len(tracks) = 1
    /\ tracks[1].mime = MimeTypeH264
    /\ tracks[1].state = "published"
    /\ chunksRead = <<s_hello, s_EXITnl>>
    /\ sent = <<s_hello \o s_EXITnl>>
    /\ pc = "sleep"

\* The steps joinRoom's goroutine takes by itself: every call it makes returns
\* in the end (connecting, dialling and opening time out or fail), so each of
\* these steps happens once it can. Nothing obliges the peer of a socket to
\* write or to close, a source to run out, or the user to send a signal.
ProgramStep ==
    \/ Connect
    \/ PublishDemo
    \/ NextPublish
    \/ LoopDone
    \/ OpenFile
    \/ Dial
    \/ PublishTrackReturn
    \/ PublishData
    \/ Sleep

LiveSpec == Spec /\ WF_vars(ProgramStep)

\* C16: a specifier that is still streaming never blocks another one: while
\* a data loop runs and --publish values are left, joinRoom still gets to
\* every one of them.
C16_NoSpecifierBlocksAnother ==
    (InDataLoop /\ pc = "read" /\ idx < nPublish) ~> (idx = nPublish)

\* C17: each message passed to PublishData is what exactly one read of the
\* socket delivered: two reads are never joined into one message and no read
\* is split over two.
C17_OneReadPerMessage ==
    /\ Len(sent) <= Len(chunksRead)
    /\ \A i \in 1..Len(sent) : \E j \in 1..Len(chunksRead) : sent[i] = chunksRead[j]

\* C18: UnpublishTrack is called only with a handle that a successful
\* PublishTrack call of the same track has returned: never while PublishTrack
\* is still running, never without a handle, never for a rejected track.
C18_UnpublishOnlyWithHandle ==
    \A t \in 1..Len(tracks) :
        tracks[t].unpublished > 0 => (tracks[t].state = "published" /\ tracks[t].pub)

C18_Witness ==
    /\ Len(tracks) = 2
    /\ tracks[1].state = "published"
    /\ tracks[1].unpublished = 1
    /\ tracks[2].state = "publishing"
    /\ tracks[2].writer = "done"
    /\ tracks[2].unpublished = 0

\* 1/rate of a second in nanoseconds, rounded down, for a rate f in hundredths.
ExactFrameDuration(f) == (Second \div f) * 100 + ((Second % f) * 100) \div f

\* C19: for every nonzero rate, whole or not, above 1 or below, computing the
\* frame duration of a frame-oriented source does not fail and gives 1/rate
\* of a second in nanoseconds.
C19_FrameDurationIsExact ==
    /\ pc # "panic"
    /\ \A t \in 1..Len(tracks) :
        tracks[t].frameDuration.set =>
            tracks[t].frameDuration.d - ExactFrameDuration(fps) \in {-1, 0, 1}

\* C20: the data loop is strictly sequential. A read of the socket delivers
\* into the empty buffer of a new iteration, so one sleep lies between any two
\* reads; after the reading comes the sentinel check, which leads to the send,
\* the sleep or the return; after the send comes the sleep or the return;
\* after the sleep comes the next read; and PublishData is called nowhere else.
\* The tracks' completion hooks run beside the loop and are not steps of it.
C20_StrictlySequential ==
    [][/\ Len(chunksRead') > Len(chunksRead) => (pc = "read" /\ data = <<>>)
       /\ (pc = "read" /\ pc' # pc) => pc' \in {"send", "sleep", "done"}
       /\ (pc = "send" /\ pc' # pc) => (pc' \in {"sleep", "done"} /\ Len(sent') = Len(sent) + 1)
       /\ (pc = "sleep" /\ pc' # pc) => (pc' = "read" /\ data' = <<>>)
       /\ (pc' = "read" /\ pc' # pc) => pc \in {"dial", "sleep"}
       /\ sent' # sent => (pc = "send" /\ pc' # pc)]_vars

\* C21: a failure of the hook's UnpublishTrack call is swallowed. The step
\* that makes the call changes nothing but that track's record: not where
\* joinRoom is, not what it returns, not the session, not another track. The
\* failed call is the only one for its track, the track's PublishTrack result
\* stands, and joinRoom never returns the failure.
C21_UnpublishFailureSwallowed ==
    /\ [](/\ err # ErrUnpublishTrack
          /\ \A t \in 1..Len(tracks) :
                tracks[t].unpublishErr # NoError
                    => (tracks[t].state = "published" /\ tracks[t].unpublished = 1))
    /\ [][\A t \in 1..Len(tracks) :
            tracks'[t].unpublished # tracks[t].unpublished
                => /\ UNCHANGED <<pc, err, connected, disconnects, idx, name, dials, opens,
                                  sent, sendErr>>
                   /\ Len(tracks') = Len(tracks)
                   /\ \A u \in 1..Len(tracks) : u # t => tracks'[u] = tracks[u]
                   /\ tracks'[t].state = tracks[t].state]_vars

C21_Witness ==
    /\ Len(tracks) = 2
    /\ tracks[1].unpublishErr = ErrUnpublishTrack
    /\ tracks[1].unpublished = 1
    /\ tracks[2].state = "published"
    /\ tracks[2].idx = 2
    /\ pc = "done"
    /\ err = NoError

\* C22: when the session rejects PublishTrack for a track, the rejection is
\* what handlePublish's caller gets: joinRoom has returned it. The track has
\* no handle, was never unpublished, is the last one PublishTrack was called
\* for, and its record never changes again: it is never published and
\* PublishTrack is not called for it a second time.
C22_RejectionSurfaced ==
    /\ [](\A t \in 1..Len(tracks) :
            tracks[t].state = "rejected"
                => /\ pc = "done"
                   /\ err = ErrPublishTrack
                   /\ t = Len(tracks)
                   /\ ~tracks[t].pub
                   /\ tracks[t].unpublished = 0)
    /\ [][\A t \in 1..Len(tracks) :
            tracks[t].state = "rejected" => (Len(tracks') = Len(tracks) /\ tracks'[t] = tracks[t])]_vars

C22_Witness ==
    /\ Len(tracks) = 2
    /\ tracks[1].state = "published"
    /\ tracks[2].state = "rejected"
    /\ tracks[2].writer = "done"
    /\ pc = "done"
    /\ err = ErrPublishTrack
    /\ ~connected

\* C23: joinRoom handles the --publish values in list order, one at a time.
\* The count of handled values grows by one, at the head of the loop, with
\* no error so far and with every earlier track's PublishTrack returned
\* successfully; dials and opens are made for the value being handled; and
\* once an error is returned nothing more is parsed, dialled, opened or
\* published.
C23_InListOrderOneAtATime ==
    /\ [](/\ idx <= nPublish
          /\ \A i \in dials \cup opens : i \in 1..idx
          /\ \A t \in 1..Len(tracks) : tracks[t].idx \in 1..idx
          /\ \A t \in 1..(Len(tracks) - 1) :
                tracks[t].idx < tracks[t + 1].idx /\ tracks[t].state = "published"
          /\ (err # NoError => pc = "done"))
    /\ [][/\ idx' # idx
              => /\ idx' = idx + 1
                 /\ pc = "loop"
                 /\ err = NoError
                 /\ \A t \in 1..Len(tracks) : tracks[t].state = "published"
          /\ dials' # dials => (pc = "dial" /\ dials' = dials \cup {idx})
          /\ opens' # opens => (pc = "open" /\ opens' = opens \cup {idx})
          /\ Len(tracks') # Len(tracks) => (pc \in {"dial", "open"} /\ tracks'[Len(tracks')].idx = idx)
          /\ err # NoError => UNCHANGED <<idx, name, dials, opens, tracks, sent>>]_vars

C23_Witness ==
    /\ idx = 2
    /\ Len(tracks) = 1
    /\ tracks[1].idx = 1
    /\ tracks[1].state = "published"
    /\ dials = {1}
    /\ opens = {2}
    /\ err = ErrOpen
    /\ pc = "done"

\* C24: once joinRoom has connected, room.Disconnect is called exactly once
\* on every path by which joinRoom returns: a failed demo publish, a failed
\* specifier, the signal. The call is made by the step that ends joinRoom, so
\* every publish step finds the session connected and not yet disconnected;
\* a joinRoom that never connected makes no call.
C24_DisconnectedExactlyOnce ==
    /\ [](/\ disconnects <= 1
          /\ (pc = "done" /\ err # ErrConnect) => (disconnects = 1 /\ ~connected)
          /\ (pc = "done" /\ err = ErrConnect) => (disconnects = 0 /\ ~connected)
          /\ pc \notin {"connect", "done", "panic"} => (connected /\ disconnects = 0))
    /\ [][/\ disconnects' # disconnects => (connected /\ ~connected' /\ pc' \in {"done", "panic"})
          /\ (idx' # idx \/ dials' # dials \/ opens' # opens \/ tracks' # tracks \/ sent' # sent)
                => (connected /\ disconnects = 0)]_vars

C24_Witness ==
    /\ pc = "done"
    /\ err = NoError
    /\ disconnects = 1
    /\ ~connected
    /\ idx = 2
    /\ Len(tracks) = 2
    /\ \A t \in 1..2 : tracks[t].state = "published" /\ tracks[t].unpublishErr = NoError

\* ---- loadProjectDetails (cmd/livekit-cli/utils.go) ----

ErrLoadProject == "project not found"
ErrURLRequired == "url is required"
ErrTokenRequired == "token is required"
ErrAPIKeyRequired == "api-key is required"
ErrAPISecretRequired == "api-secret is required"

\* The options a caller can pass: none, or ignoreURL.
LoadOptions == {<<>>, <<"ignoreURL">>}

\* What each string flag can hold: nothing or a value.
ProjectFlags == {"", "staging"}
URLFlags == {"", "ws://localhost:7880"}
TokenFlags == {"", "token"}
APIKeyFlags == {"", "devkey"}
APISecretFlags == {"", "secret"}

\* The configuration config.LoadProject returns for the --project flag.
NamedProjectConfig ==
    [URL |-> "ws://staging", Token |-> "", APIKey |-> "stagingkey", APISecret |-> "stagingsecret"]

\* loadProjectDetails is called: p is loadParams{requireURL: true} and the
\* flags hold what the command line and the environment gave them.
LoadInit ==
    /\ load \in [at : {"options"}, opts : LoadOptions, requireURL : {TRUE},
                 project : ProjectFlags, url : URLFlags, token : TokenFlags,
                 apiKey : APIKeyFlags, apiSecret : APISecretFlags,
                 pc : {EmptyProjectConfig}, ret : {"none"}, err : {NoError}]
    /\ pc = "load"
    /\ fps = 0
    /\ nPublish = 0
    /\ idx = 0
    /\ name = <<>>
    /\ sock = NoSock
    /\ mime = ""
    /\ dials = {}
    /\ opens = {}
    /\ tracks = <<>>
    /\ data = <<>>
    /\ inEOF = FALSE
    /\ chunksRead = <<>>
    /\ sent = <<>>
    /\ sendErr = NoError
    /\ err = NoError
    /\ connected = FALSE
    /\ disconnects = 0

\* loadProjectDetails returns at the statement called r, with configuration
\* cfg and error e.
LoadReturn(r, cfg, e) ==
    load' = [load EXCEPT !.at = "returned", !.ret = r, !.pc = cfg, !.err = e]

\* for _, opt := range opts { opt(&p) }
ApplyOptions ==
    /\ load.at = "options"
    /\ load' = [load EXCEPT !.at = "project",
                            !.requireURL = \A i \in 1..Len(load.opts) : load.opts[i] # "ignoreURL"]

\* if c.String("project") != "": the named project or the error of loading it.
ExplicitProject ==
    /\ load.at = "project"
    /\ IF load.project # ""
       THEN \E ok \in BOOLEAN :
            IF ok
            THEN LoadReturn("project", NamedProjectConfig, NoError)
            ELSE LoadReturn("project error", EmptyProjectConfig, ErrLoadProject)
       ELSE load' = [load EXCEPT !.at = "flags"]

\* pc := &config.ProjectConfig{} and the four flags copied when not empty.
ReadFlags ==
    /\ load.at = "flags"
    /\ load' = [load EXCEPT
            !.at = "token",
            !.pc = [URL |-> IF load.url # "" THEN load.url ELSE "",
                    Token |-> IF load.token # "" THEN load.token ELSE "",
                    APIKey |-> IF load.apiKey # "" THEN load.apiKey ELSE "",
                    APISecret |-> IF load.apiSecret # "" THEN load.apiSecret ELSE ""]]

\* if pc.Token != "" && (pc.URL != "" || !p.requireURL) { ... return pc, nil }
TokenGiven ==
    /\ load.at = "token"
    /\ IF load.pc.Token # "" /\ (load.pc.URL # "" \/ ~load.requireURL)
       THEN LoadReturn("token", load.pc, NoError)
       ELSE load' = [load EXCEPT !.at = "keys"]

\* if pc.APIKey != "" && pc.APISecret != "" && (pc.URL != "" || !p.requireURL)
KeysGiven ==
    /\ load.at = "keys"
    /\ IF load.pc.APIKey # "" /\ load.pc.APISecret # "" /\ (load.pc.URL # "" \/ ~load.requireURL)
       THEN LoadReturn("keys", load.pc, NoError)
       ELSE load' = [load EXCEPT !.at = "default"]

\* dp, err := config.LoadDefaultProject(); if err == nil { return dp, nil }
LoadDefaultProject ==
    /\ load.at = "default"
    /\ \E ok \in BOOLEAN :
        IF ok
        THEN LoadReturn("default project", DefaultProjectConfig, NoError)
        ELSE load' = [load EXCEPT !.at = "validate"]

\* Validate without its first test, the one for a missing url.
Validate_noURLTest ==
    /\ load.at = "validate"
    /\ IF load.pc.Token = "" /\ load.pc.APIKey = "" /\ load.pc.APISecret = ""
       THEN LoadReturn("token required", EmptyProjectConfig, ErrTokenRequired)
       ELSE IF load.pc.APIKey = ""
       THEN LoadReturn("api-key required", EmptyProjectConfig, ErrAPIKeyRequired)
       ELSE IF load.pc.APISecret = ""
       THEN LoadReturn("api-secret required", EmptyProjectConfig, ErrAPISecretRequired)
       ELSE LoadReturn("cannot happen", load.pc, NoError)

\* The four tests after the default project failed to load, and the return
\* marked "cannot happen" behind them.
Validate ==
    /\ load.at = "validate"
    /\ IF load.requireURL /\ load.pc.URL = ""
       THEN LoadReturn("url required", EmptyProjectConfig, ErrURLRequired)
       ELSE IF load.pc.Token = "" /\ load.pc.APIKey = "" /\ load.pc.APISecret = ""
       THEN LoadReturn("token required", EmptyProjectConfig, ErrTokenRequired)
       ELSE IF load.pc.APIKey = ""
       THEN LoadReturn("api-key required", EmptyProjectConfig, ErrAPIKeyRequired)
       ELSE IF load.pc.APISecret = ""
       THEN LoadReturn("api-secret required", EmptyProjectConfig, ErrAPISecretRequired)
       ELSE LoadReturn("cannot happen", load.pc, NoError)

LoadNext ==
    /\ \/ ApplyOptions
       \/ ExplicitProject
       \/ ReadFlags
       \/ TokenGiven
       \/ KeysGiven
       \/ LoadDefaultProject
       \/ Validate
    /\ UNCHANGED <<pc, fps, nPublish, idx, name, sock, mime, dials, opens, tracks, data, inEOF,
                   chunksRead, sent, sendErr, err, connected, disconnects>>

LoadSpec == LoadInit /\ [][LoadNext]_vars

RequiredErrors == {ErrURLRequired, ErrTokenRequired, ErrAPIKeyRequired, ErrAPISecretRequired}

\* C25: the return marked "cannot happen" is never reached. For every choice
\* of url, token, api-key and api-secret, empty or not, of requireURL and of
\* the default project loading or not, loadProjectDetails returns earlier:
\* a configuration and no error, or no configuration and one of the
\* "... is required" errors.
C25_FallbackUnreachable ==
    /\ load.ret # "cannot happen"
    /\ (load.at = "returned" /\ load.project = "")
        => \/ /\ load.err = NoError
              /\ load.ret \in {"token", "keys", "default project"}
           \/ /\ load.err \in RequiredErrors
              /\ load.pc = EmptyProjectConfig

C25_Witness ==
    /\ load.at = "returned"
    /\ load.ret = "api-secret required"
    /\ load.err = ErrAPISecretRequired
    /\ load.token = ""
    /\ load.apiKey # ""
    /\ load.apiSecret = ""
    /\ ~load.requireURL \/ load.url # ""

====
